---- MODULE Spec2Model ----
(***************************************************************************)
(* A model of egui_winit_platform's Platform (src/src/lib.rs): the state   *)
(* of one Platform object, one action per winit event kind handled by      *)
(* handle_event, and the frame protocol begin_frame / end_frame.            *)
(*                                                                         *)
(* Conventions.  Option<T> is a sequence: None is <<>>, Some(x) is <<x>>.   *)
(* A string (SmolStr / String) is a sequence of Unicode code points; its   *)
(* len() is the number of bytes of its UTF-8 encoding.  Coordinates are    *)
(* taken from sets on which the f32 division by the scale factor is exact, *)
(* so a logical coordinate is an integer quotient.                         *)
(***************************************************************************)
EXTENDS Integers, Sequences, FiniteSets, TLC

\* ------------------------------------------------------------------ bounds
\* handle_event is fed only while fewer than MaxQueue events are pending.
MaxQueue == 1
\* the number of touch contacts the platform reports as down at once.
MaxTouches == 2
\* length of the recorded event history in the recording specification.
MaxLog == 4

\* ---------------------------------------------------------- program constants
LineHeight == 8
\* the width of touch_pointer_pressed : u32
U32Bits == 32

\* ------------------------------------------------------------------ options
None == <<>>
Some(x) == <<x>>
IsSome(o) == o # <<>>
Unwrap(o) == o[1]

\* --------------------------------------------------------------------- u32
\* A u32 is kept as two 16-bit limbs <<high, low>>, so that the whole range
\* up to u32::MAX and the carry out of it are representable.
Limb == 2 ^ (U32Bits \div 2)
U32(n) == <<n \div Limb, n % Limb>>
U32Zero == <<0, 0>>
U32Max == <<Limb - 1, Limb - 1>>
IsU32(c) == c[1] \in 0..(Limb - 1) /\ c[2] \in 0..(Limb - 1)
\* c + 1 for c < u32::MAX, and c - 1 for c > 0.
Add1(c) == IF c[2] < Limb - 1 THEN <<c[1], c[2] + 1>> ELSE <<c[1] + 1, 0>>
Sub1(c) == IF c[2] > 0 THEN <<c[1], c[2] - 1>> ELSE <<c[1] - 1, Limb - 1>>
\* u32::checked_sub(1)
checked_sub1(c) == IF c = U32Zero THEN None ELSE Some(Sub1(c))

\* ------------------------------------------------------------------ inputs
DeviceIds == {"devA", "devB"}
TouchIds == {0, 1}
TouchPhases == {"Started", "Moved", "Ended", "Cancelled"}
TouchLocations == {<<40, 20>>}
TouchForces == {None}
ScaleFactors == {1, 2}
PhysicalSizes == {<<0, 0>>, <<800, 600>>, <<0, 600>>, <<400, 200>>}
CursorPositions == {<<40, 20>>, <<80, 60>>}
MouseButtons == {"Left", "Right", "Middle", "Back", "Forward", "Other"}
ElementStates == {"Pressed", "Released"}
ModifierFlags == {"ALT", "CONTROL", "SHIFT", "SUPER"}
ModifierStates == {{}, {"CONTROL"}, {"SUPER"}}
TargetOses == {"linux", "macos"}
Descriptors == {[physical_width |-> 800, physical_height |-> 600, scale_factor |-> 2],
                [physical_width |-> 400, physical_height |-> 200, scale_factor |-> 1]}

\* ------------------------------------------------------------------ state
VARIABLES
  scale_factor,          \* Platform::scale_factor
  raw_input,             \* Platform::raw_input (screen_rect, modifiers, events)
  modifier,              \* Platform::modifier, a set of winit modifier flags
  pointer_pos,           \* Platform::pointer_pos : Option<Pos2>
  clipboard,             \* Platform::clipboard : Option<contents>
  target_os,             \* cfg!(target_os): "macos" or another platform
  touch_pointer_pressed, \* Platform::touch_pointer_pressed : u32
  device_indices,        \* Platform::device_indices : DeviceId -> u64
  next_device_index,     \* Platform::next_device_index : u64
  submitted,             \* the RawInput most recently given to Context::begin_frame
  last,                  \* the most recent call: its name, argument and effect
  emu_balance,           \* emulated presses minus emulated releases appended so far
  first_index,           \* device id -> index carried by its first raw Touch event
  hist                   \* recorded history: the events appended so far, the
                         \* concatenation of the submitted batches and the
                         \* number of non-empty batches

vars == <<scale_factor, raw_input, modifier, pointer_pos, clipboard, target_os,
          touch_pointer_pressed, device_indices, next_device_index,
          submitted, last, emu_balance, first_index, hist>>

platform == <<scale_factor, raw_input, modifier, pointer_pos, clipboard, target_os,
              touch_pointer_pressed, device_indices, next_device_index>>

\* ------------------------------------------------------------ pure helpers
\* pos2 / vec2: a pair of f32.
pos2(x, y) == <<x, y>>
vec2(x, y) == <<x, y>>

\* `physical as f32 / scale_factor as f32`.
ToLogical(physical, sf) == physical \div sf

\* egui::Rect::from_min_size(Pos2::default(), size).
RectFromMinSize(min, size) == [min |-> min, max |-> <<min[1] + size[1], min[2] + size[2]>>]

\* egui::Modifiers::default().
DefaultModifiers == [alt |-> FALSE, ctrl |-> FALSE, shift |-> FALSE,
                     mac_cmd |-> FALSE, command |-> FALSE]

\* Vec::push.
Push(events, e) == Append(events, e)

\* the events a call appended: what follows the first n pending events.
Suffix(events, n) == SubSeq(events, n + 1, Len(events))

\* ------------------------------------------------------------ egui events
TouchEvent(device_id, id, phase, pos, force) ==
  [type |-> "Touch", device_id |-> device_id, id |-> id, phase |-> phase,
   pos |-> pos, force |-> force]
PointerMoved(pos) == [type |-> "PointerMoved", pos |-> pos]
PointerGone == [type |-> "PointerGone"]
PointerButton(pos, button, pressed, modifiers) ==
  [type |-> "PointerButton", pos |-> pos, button |-> button,
   pressed |-> pressed, modifiers |-> modifiers]

\* --------------------------------------------------------------- Touch
\* variant: a miss inserts next_device_index without advancing it.
DeviceLookup_NoIncrement(indices, next, device_id) ==
  IF device_id \in DOMAIN indices
    THEN [id |-> indices[device_id], indices |-> indices, next |-> next]
    ELSE [id |-> next,
          indices |-> [d \in DOMAIN indices \cup {device_id} |->
                         IF d = device_id THEN next ELSE indices[d]],
          next |-> next]

\* variant: a new device takes the next index and the one after it.
DeviceLookup_SkipsOne(indices, next, device_id) ==
  IF device_id \in DOMAIN indices
    THEN [id |-> indices[device_id], indices |-> indices, next |-> next]
    ELSE [id |-> next,
          indices |-> [d \in DOMAIN indices \cup {device_id} |->
                         IF d = device_id THEN next ELSE indices[d]],
          next |-> next + 2]

\* device_indices.get(&touch.device_id), inserting next_device_index on a miss.
DeviceLookup(indices, next, device_id) ==
  IF device_id \in DOMAIN indices
    THEN [id |-> indices[device_id], indices |-> indices, next |-> next]
    ELSE [id |-> next,
          indices |-> [d \in DOMAIN indices \cup {device_id} |->
                         IF d = device_id THEN next ELSE indices[d]],
          next |-> next + 1]

\* touch.phase -> egui::TouchPhase.
EguiPhase(phase) ==
  CASE phase = "Started" -> "Start"
    [] phase = "Moved" -> "Move"
    [] phase = "Ended" -> "End"
    [] phase = "Cancelled" -> "Cancel"

\* touch.force -> f32; an absent force is 0.0.
ForceValue(force) == IF IsSome(force) THEN Unwrap(force).force ELSE 0

\* the ref-count after the phase is applied: += 1 on Started, checked_sub(1)
\* clamped at 0 on Ended / Cancelled, unchanged on Moved.  The count is a
\* u32: `+= 1` at u32::MAX panics in a build with overflow checks (None) and
\* wraps to 0 in a build without them.
TouchCount(count, phase, overflow_checks) ==
  CASE phase = "Started" ->
         IF count # U32Max THEN Some(Add1(count))
         ELSE IF overflow_checks THEN None ELSE Some(U32Zero)
    [] phase \in {"Ended", "Cancelled"} ->
         LET sub == checked_sub1(count)
         IN Some(IF IsSome(sub) THEN Unwrap(sub) ELSE U32Zero)
    [] phase = "Moved" -> Some(count)

\* variant: the press is pushed without looking at was_pressed.
EmulatePointer_NoEdge(events, was_pressed, count, pos) ==
  IF count # U32Zero
    THEN Push(events, PointerButton(pos, "Primary", TRUE, DefaultModifiers))
    ELSE IF was_pressed /\ count = U32Zero
      THEN Push(Push(events, PointerButton(pos, "Primary", FALSE, DefaultModifiers)),
                PointerGone)
      ELSE events

\* variant: the release is pushed whenever the count is 0.
EmulatePointer_ReleaseAtZero(events, was_pressed, count, pos) ==
  IF ~was_pressed /\ count # U32Zero
    THEN Push(events, PointerButton(pos, "Primary", TRUE, DefaultModifiers))
    ELSE IF count = U32Zero
      THEN Push(Push(events, PointerButton(pos, "Primary", FALSE, DefaultModifiers)),
                PointerGone)
      ELSE events

\* variant: PointerGone is pushed before the release.
EmulatePointer_GoneFirst(events, was_pressed, count, pos) ==
  IF ~was_pressed /\ count # U32Zero
    THEN Push(events, PointerButton(pos, "Primary", TRUE, DefaultModifiers))
    ELSE IF was_pressed /\ count = U32Zero
      THEN Push(Push(events, PointerGone),
                PointerButton(pos, "Primary", FALSE, DefaultModifiers))
      ELSE events

\* the emulated pointer button events pushed on an edge of the ref-count.
EmulatePointer(events, was_pressed, count, pos) ==
  IF ~was_pressed /\ count # U32Zero
    THEN Push(events, PointerButton(pos, "Primary", TRUE, DefaultModifiers))
    ELSE IF was_pressed /\ count = U32Zero
      THEN Push(Push(events, PointerButton(pos, "Primary", FALSE, DefaultModifiers)),
                PointerGone)
      ELSE events



\* ------------------------------------------------------------ Resized
\* variant: only the width is divided by the scale factor.
ScreenRect_WidthOnly(width, height, sf) ==
  RectFromMinSize(pos2(0, 0), vec2(ToLogical(width, sf), height))

\* Rect::from_min_size(Default::default(), vec2(width as f32, height as f32)
\* / scale_factor as f32).
ScreenRect(width, height, sf) ==
  RectFromMinSize(pos2(0, 0), vec2(ToLogical(width, sf), ToLogical(height, sf)))

\* ------------------------------------------------------------ modifiers
\* winit_to_egui_modifiers: command is the super key on macOS and the control
\* key elsewhere; mac_cmd is set on macOS only.
winit_to_egui_modifiers(modifiers, os) ==
  [alt |-> "ALT" \in modifiers,
   ctrl |-> "CONTROL" \in modifiers,
   shift |-> "SHIFT" \in modifiers,
   mac_cmd |-> IF os = "macos" THEN "SUPER" \in modifiers ELSE FALSE,
   command |-> IF os = "macos" THEN "SUPER" \in modifiers ELSE "CONTROL" \in modifiers]

\* ------------------------------------------------------------ keyboard
\* keys: Key::Named(name) and Key::Character(str).
Named(name) == [kind |-> "Named", name |-> name]
Character(str) == [kind |-> "Character", str |-> str]

\* number of bytes of the UTF-8 encoding of one code point.
Utf8Len(cp) ==
  IF cp < 128 THEN 1 ELSE IF cp < 2048 THEN 2 ELSE IF cp < 65536 THEN 3 ELSE 4

\* str::len(): the length in bytes.
RECURSIVE StrLen(_)
StrLen(str) == IF str = <<>> THEN 0 ELSE Utf8Len(Head(str)) + StrLen(Tail(str))

\* event.text.as_ref().filter(|s| s.len() > 1).
TextFilter(text) == IF IsSome(text) /\ StrLen(Unwrap(text)) > 1 THEN text ELSE None

NamedKeyTable == {"Escape", "Insert", "Home", "Delete", "End", "PageDown", "PageUp",
                  "ArrowLeft", "ArrowUp", "ArrowRight", "ArrowDown", "Backspace",
                  "Enter", "Tab", "Space"}
DigitKeys == <<"Num0", "Num1", "Num2", "Num3", "Num4", "Num5", "Num6", "Num7", "Num8", "Num9">>
LetterKeys == <<"A", "B", "C", "D", "E", "F", "G", "H", "I", "J", "K", "L", "M",
                "N", "O", "P", "Q", "R", "S", "T", "U", "V", "W", "X", "Y", "Z">>

\* winit_to_egui_key_code: the named navigation keys, and the one-character
\* strings "0".."9" (code points 48..57) and "a".."z" (97..122).
winit_to_egui_key_code(key) ==
  IF key.kind = "Named"
    THEN IF key.name \in NamedKeyTable THEN Some(key.name) ELSE None
    ELSE IF Len(key.str) = 1 /\ key.str[1] \in 48..57
      THEN Some(DigitKeys[key.str[1] - 47])
      ELSE IF Len(key.str) = 1 /\ key.str[1] \in 97..122
        THEN Some(LetterKeys[key.str[1] - 96])
        ELSE None

TextEvent(str) == [type |-> "Text", text |-> str]
CopyEvent == [type |-> "Copy"]
CutEvent == [type |-> "Cut"]
KeyEvent(key, pressed, modifiers, repeat) ==
  [type |-> "Key", key |-> key, pressed |-> pressed, modifiers |-> modifiers,
   repeat |-> repeat]

\* variant: the Key event carries the default, empty modifiers.
KeyboardEvents_DefaultModifiers(events, state, logical_key, text, mods, os, clip) ==
  LET pressed == state = "Pressed"
      filtered == TextFilter(text)
  IN IF IsSome(filtered)
       THEN Push(events, TextEvent(Unwrap(filtered)))
       ELSE IF logical_key = Named("Copy") THEN Push(events, CopyEvent)
       ELSE IF logical_key = Named("Cut") THEN Push(events, CutEvent)
       ELSE IF logical_key = Named("Paste")
         THEN IF IsSome(clip) THEN Push(events, TextEvent(Unwrap(clip))) ELSE events
       ELSE LET key == winit_to_egui_key_code(logical_key)
            IN IF IsSome(key)
                 THEN Push(events, KeyEvent(Unwrap(key), pressed,
                                            DefaultModifiers, FALSE))
                 ELSE events

\* the KeyboardInput arm: what it pushes on the pending events.
KeyboardEvents(events, state, logical_key, text, mods, os, clip) ==
  LET pressed == state = "Pressed"
      filtered == TextFilter(text)
  IN IF IsSome(filtered)
       THEN Push(events, TextEvent(Unwrap(filtered)))
       ELSE IF logical_key = Named("Copy") THEN Push(events, CopyEvent)
       ELSE IF logical_key = Named("Cut") THEN Push(events, CutEvent)
       ELSE IF logical_key = Named("Paste")
         THEN IF IsSome(clip) THEN Push(events, TextEvent(Unwrap(clip))) ELSE events
       ELSE LET key == winit_to_egui_key_code(logical_key)
            IN IF IsSome(key)
                 THEN Push(events, KeyEvent(Unwrap(key), pressed,
                                            winit_to_egui_modifiers(mods, os), FALSE))
                 ELSE events

\* ------------------------------------------------------------ mouse
\* winit::event::MouseButton -> egui::PointerButton, for the buttons other
\* than Other(..).
EguiButton(button) ==
  CASE button = "Left" -> "Primary"
    [] button = "Right" -> "Secondary"
    [] button = "Middle" -> "Middle"
    [] button = "Back" -> "Extra1"
    [] button = "Forward" -> "Extra2"

\* ------------------------------------------------------------ wheel, IME
LineDelta(x, y) == [kind |-> "LineDelta", x |-> x, y |-> y]
PixelDelta(x, y) == [kind |-> "PixelDelta", x |-> x, y |-> y]

\* the wheel delta in points: a line is LineHeight points, and macOS inverts
\* the horizontal axis.
WheelDelta(delta, os) ==
  LET d == IF delta.kind = "LineDelta"
             THEN vec2(delta.x * LineHeight, delta.y * LineHeight)
             ELSE vec2(delta.x, delta.y)
  IN IF os = "macos" THEN vec2(-d[1], d[2]) ELSE d

\* Event::Zoom((delta.y / 200.0).exp()): the factor is kept as the exponent's
\* numerator and denominator.
ZoomEvent(y) == [type |-> "Zoom", exp |-> <<y, 200>>]
ScrollEvent(delta) == [type |-> "Scroll", delta |-> delta]
CompositionStart == [type |-> "CompositionStart"]
CompositionUpdate(str) == [type |-> "CompositionUpdate", text |-> str]
CompositionEnd(str) == [type |-> "CompositionEnd", text |-> str]

\* variant: a Commit ends the composition without starting a new one.
ImeEvents_CommitNoRestart(events, ime) ==
  CASE ime.kind = "Enabled" -> Push(events, CompositionStart)
    [] ime.kind = "Preedit" -> Push(events, CompositionUpdate(ime.text))
    [] ime.kind = "Commit" -> Push(events, CompositionEnd(ime.text))
    [] ime.kind = "Disabled" -> Push(events, CompositionEnd(<<>>))

\* the Ime arm: what it pushes on the pending events.
ImeEvents(events, ime) ==
  CASE ime.kind = "Enabled" -> Push(events, CompositionStart)
    [] ime.kind = "Preedit" -> Push(events, CompositionUpdate(ime.text))
    [] ime.kind = "Commit" -> Push(Push(events, CompositionEnd(ime.text)), CompositionStart)
    [] ime.kind = "Disabled" -> Push(events, CompositionEnd(<<>>))

\* ------------------------------------------------------------ end_frame
\* egui_to_winit_cursor_icon: the icons whose winit name differs, the hidden
\* cursor, and the icons that keep their name.
egui_to_winit_cursor_icon(icon) ==
  CASE icon = "None" -> None
    [] icon = "PointingHand" -> Some("Pointer")
    [] icon = "ResizeHorizontal" -> Some("EwResize")
    [] icon = "ResizeNeSw" -> Some("NeswResize")
    [] icon = "ResizeNwSe" -> Some("NwseResize")
    [] icon = "ResizeVertical" -> Some("NsResize")
    [] icon = "ResizeEast" -> Some("EResize")
    [] icon = "ResizeSouthEast" -> Some("SeResize")
    [] icon = "ResizeSouth" -> Some("SResize")
    [] icon = "ResizeSouthWest" -> Some("SwResize")
    [] icon = "ResizeWest" -> Some("WResize")
    [] icon = "ResizeNorthWest" -> Some("NwResize")
    [] icon = "ResizeNorth" -> Some("NResize")
    [] icon = "ResizeNorthEast" -> Some("NeResize")
    [] icon = "ResizeColumn" -> Some("ColResize")
    [] icon = "ResizeRow" -> Some("RowResize")
    [] OTHER -> Some(icon)

\* variant: the icon is set whether or not the pointer is inside the window.
WindowCalls_IconAlways(window, cursor_icon, pos) ==
  IF IsSome(window)
    THEN LET icon == egui_to_winit_cursor_icon(cursor_icon)
         IN IF IsSome(icon)
              THEN <<[call |-> "set_cursor_visible", arg |-> "true"],
                     [call |-> "set_cursor_icon", arg |-> Unwrap(icon)]>>
              ELSE <<[call |-> "set_cursor_visible", arg |-> "false"]>>
    ELSE <<>>

\* the calls end_frame makes on the window.
WindowCalls(window, cursor_icon, pos) ==
  IF IsSome(window)
    THEN LET icon == egui_to_winit_cursor_icon(cursor_icon)
         IN IF IsSome(icon)
              THEN <<[call |-> "set_cursor_visible", arg |-> "true"]>>
                   \o (IF IsSome(pos)
                         THEN <<[call |-> "set_cursor_icon", arg |-> Unwrap(icon)]>>
                         ELSE <<>>)
              ELSE <<[call |-> "set_cursor_visible", arg |-> "false"]>>
    ELSE <<>>

\* variant: the batch is read after it was emptied.
Take_SubmitsEmptied(input) ==
  [taken |-> [screen_rect |-> None, modifiers |-> input.modifiers, events |-> <<>>],
   left |-> [screen_rect |-> None, modifiers |-> input.modifiers, events |-> <<>>]]

\* variant: the whole batch is replaced by a default one, modifiers included.
Take_ResetsModifiers(input) ==
  [taken |-> input,
   left |-> [screen_rect |-> None, modifiers |-> DefaultModifiers, events |-> <<>>]]

\* variant: the batch is cloned and the pending events stay.
Take_Clone(input) ==
  [taken |-> input, left |-> input]

\* RawInput::take: the events move out, the screen rectangle is taken, the
\* modifiers are copied.
Take(input) ==
  [taken |-> input,
   left |-> [screen_rect |-> None, modifiers |-> input.modifiers, events |-> <<>>]]

\* ------------------------------------------------------------ bookkeeping
\* no call has panicked: a panic unwinds out of the platform for good.
Running == ~last.aborted

\* the pending queue accepts another handle_event call.
CanHandle ==
  /\ Running
  /\ IF hist.recording THEN Len(hist.appended) < MaxLog
     ELSE Len(raw_input.events) < MaxQueue

\* where the Ime events handled so far stand in the platform's protocol
\* Enabled, (Preedit | Commit)*, Disabled: in a session, out of one, or off
\* the protocol.
ImeSession(session, kind) ==
  CASE session = "off" /\ kind = "Enabled" -> "on"
    [] session = "on" /\ kind \in {"Preedit", "Commit"} -> "on"
    [] session = "on" /\ kind = "Disabled" -> "off"
    [] OTHER -> "broken"

\* the record of a call: its name and argument, the state it started from,
\* the events it appended to the pending queue, the platform calls it made and
\* the value it returned; in a recorded history also the name and the starting
\* queue length of the call before it.  Three fields are carried from call to
\* call: the most recent cursor event with the physical position divided by
\* the scale factor of that moment, the state of the most recent
\* ModifiersChanged, and the device ids in the order of their first Touch.
CallFx(op, arg, events_after, effects) ==
  [op |-> op, arg |-> arg,
   prev_op |-> IF hist.recording THEN last.op ELSE "untracked",
   pre_count |-> touch_pointer_pressed,
   pre_next |-> next_device_index,
   pre_pending |-> Len(raw_input.events),
   prev_pending |-> IF hist.recording THEN last.pre_pending ELSE 0,
   appended |-> Suffix(events_after, Len(raw_input.events)),
   effects |-> effects,
   result |-> None,
   aborted |-> FALSE,
   cursor |-> IF op = "CursorMoved"
                THEN [kind |-> "moved",
                      pos |-> <<arg.position[1] \div scale_factor,
                                arg.position[2] \div scale_factor>>]
                ELSE IF op = "CursorLeft" THEN [kind |-> "left", pos |-> <<0, 0>>]
                ELSE last.cursor,
   mods |-> IF op = "ModifiersChanged" THEN arg.state ELSE last.mods,
   ime |-> IF hist.recording /\ op = "Ime" THEN ImeSession(last.ime, arg.ime.kind)
           ELSE last.ime,
   seen |-> IF op = "Touch" /\ \A i \in 1..Len(last.seen) : last.seen[i] # arg.device_id
              THEN Append(last.seen, arg.device_id)
              ELSE last.seen]

Call(op, arg, events_after) == CallFx(op, arg, events_after, <<>>)

CallRet(op, arg, result) ==
  [CallFx(op, arg, raw_input.events, <<>>) EXCEPT !.result = Some(result)]

Record(events_after) ==
  IF hist.recording
    THEN [hist EXCEPT !.appended = @ \o Suffix(events_after, Len(raw_input.events))]
    ELSE hist

IsEmuButton(e, pressed) ==
  e.type = "PointerButton" /\ e.button = "Primary" /\ e.pressed = pressed

Count(s, P(_)) == Cardinality({i \in 1..Len(s) : P(s[i])})

\* ------------------------------------------------------------------ Init
\* Platform::new.
InitPlatform(descriptor) ==
  /\ scale_factor = descriptor.scale_factor
  /\ raw_input = [screen_rect |-> Some(ScreenRect(descriptor.physical_width,
                                                  descriptor.physical_height,
                                                  descriptor.scale_factor)),
                  modifiers |-> DefaultModifiers,
                  events |-> <<>>]
  /\ modifier = {}
  /\ pointer_pos = Some(pos2(0, 0))
  /\ touch_pointer_pressed = U32Zero
  /\ device_indices = <<>>
  /\ next_device_index = 1

InitGhost(recording) ==
  /\ submitted = None
  /\ last = [op |-> "new", arg |-> None,
             prev_op |-> IF recording THEN "none" ELSE "untracked",
             pre_count |-> U32Zero, aborted |-> FALSE,
             pre_next |-> 1, pre_pending |-> 0, prev_pending |-> 0, appended |-> <<>>,
             effects |-> <<>>, result |-> None,
             cursor |-> [kind |-> "new", pos |-> <<0, 0>>],
             mods |-> {}, ime |-> "off", seen |-> <<>>]
  /\ emu_balance = 0
  /\ first_index = <<>>
  /\ hist = [recording |-> recording, appended |-> <<>>, submitted |-> <<>>,
             batches |-> 0]

InitEnv ==
  /\ \E d \in Descriptors : InitPlatform(d)
  /\ clipboard \in {None, Some(<<118>>)}
  /\ target_os \in TargetOses

Init == InitEnv /\ InitGhost(FALSE)

\* --------------------------------------------------------------- actions
\* what every handle_event arm other than Touch leaves alone.
NoTouchChange ==
  UNCHANGED <<touch_pointer_pressed, device_indices, next_device_index,
              emu_balance, first_index>>

\* variant: a resize is ignored as soon as one of width and height is 0.
HandleResized_AnyZero(width, height) ==
  /\ CanHandle
  /\ raw_input' = IF width = 0 \/ height = 0 THEN raw_input
                  ELSE [raw_input EXCEPT
                          !.screen_rect = Some(ScreenRect(width, height, scale_factor))]
  /\ last' = Call("Resized", [width |-> width, height |-> height], raw_input.events)
  /\ hist' = Record(raw_input.events)
  /\ NoTouchChange
  /\ UNCHANGED <<scale_factor, modifier, pointer_pos, clipboard, target_os, submitted>>

\* handle_event, WindowEvent::Resized.
HandleResized(width, height) ==
  /\ CanHandle
  /\ raw_input' = IF width = 0 /\ height = 0 THEN raw_input
                  ELSE [raw_input EXCEPT
                          !.screen_rect = Some(ScreenRect(width, height, scale_factor))]
  /\ last' = Call("Resized", [width |-> width, height |-> height], raw_input.events)
  /\ hist' = Record(raw_input.events)
  /\ NoTouchChange
  /\ UNCHANGED <<scale_factor, modifier, pointer_pos, clipboard, target_os, submitted>>

\* variant: the screen rectangle is rescaled to the new factor.
HandleScaleFactorChanged_Rescales(sf) ==
  /\ Running
  /\ scale_factor' = sf
  /\ raw_input' =
       IF IsSome(raw_input.screen_rect)
         THEN LET size == Unwrap(raw_input.screen_rect).max
              IN [raw_input EXCEPT !.screen_rect =
                    Some(RectFromMinSize(pos2(0, 0),
                                         vec2((size[1] * scale_factor) \div sf,
                                              (size[2] * scale_factor) \div sf)))]
         ELSE raw_input
  /\ last' = Call("ScaleFactorChanged", [scale_factor |-> sf], raw_input.events)
  /\ hist' = Record(raw_input.events)
  /\ NoTouchChange
  /\ UNCHANGED <<modifier, pointer_pos, clipboard, target_os, submitted>>

\* handle_event, WindowEvent::ScaleFactorChanged.  It appends nothing, so it
\* is handled whatever the length of the pending queue.
HandleScaleFactorChanged(sf) ==
  /\ Running
  /\ scale_factor' = sf
  /\ last' = Call("ScaleFactorChanged", [scale_factor |-> sf], raw_input.events)
  /\ hist' = Record(raw_input.events)
  /\ NoTouchChange
  /\ UNCHANGED <<raw_input, modifier, pointer_pos, clipboard, target_os, submitted>>

\* variant: the button event is stamped with the live modifiers.
HandleMouseInput_LiveModifiers(state, button) ==
  /\ CanHandle
  /\ LET ev == IF button = "Other" THEN raw_input.events
               ELSE IF IsSome(pointer_pos)
                 THEN Push(raw_input.events,
                           PointerButton(Unwrap(pointer_pos), EguiButton(button),
                                         state = "Pressed", raw_input.modifiers))
                 ELSE raw_input.events
     IN /\ raw_input' = [raw_input EXCEPT !.events = ev]
        /\ last' = Call("MouseInput", [state |-> state, button |-> button], ev)
        /\ hist' = Record(ev)
  /\ NoTouchChange
  /\ UNCHANGED <<scale_factor, modifier, pointer_pos, clipboard, target_os, submitted>>

\* handle_event, WindowEvent::MouseInput.
HandleMouseInput(state, button) ==
  /\ CanHandle
  /\ LET ev == IF button = "Other" THEN raw_input.events
               ELSE IF IsSome(pointer_pos)
                 THEN Push(raw_input.events,
                           PointerButton(Unwrap(pointer_pos), EguiButton(button),
                                         state = "Pressed", DefaultModifiers))
                 ELSE raw_input.events
     IN /\ raw_input' = [raw_input EXCEPT !.events = ev]
        /\ last' = Call("MouseInput", [state |-> state, button |-> button], ev)
        /\ hist' = Record(ev)
  /\ NoTouchChange
  /\ UNCHANGED <<scale_factor, modifier, pointer_pos, clipboard, target_os, submitted>>

\* the counts explored: within MaxTouches of 0 and within MaxTouches of
\* u32::MAX, the two ends of the range of touch_pointer_pressed.
CountExplored(count, phase) ==
  /\ phase = "Started" => count # U32(MaxTouches)
  /\ phase \in {"Ended", "Cancelled"} => count # <<Limb - 1, Limb - 1 - MaxTouches>>

\* variant: the emulated pointer is stored, the contact's position on a
\* press or a move and absent after PointerGone.
HandleTouch_SetsPointer(device_id, id, phase, location, force) ==
  /\ CanHandle
  /\ CountExplored(touch_pointer_pressed, phase)
  /\ \E overflow_checks \in BOOLEAN :
     LET pos == pos2(ToLogical(location[1], scale_factor),
                     ToLogical(location[2], scale_factor))
         dev == DeviceLookup(device_indices, next_device_index, device_id)
         ev1 == Push(raw_input.events,
                     TouchEvent(dev.id, id, EguiPhase(phase), pos, Some(ForceValue(force))))
         was_pressed == touch_pointer_pressed # U32Zero
         counted == TouchCount(touch_pointer_pressed, phase, overflow_checks)
         \* a panic at `+= 1` leaves the count as it was and skips the rest.
         panicked == ~IsSome(counted)
         count == IF panicked THEN touch_pointer_pressed ELSE Unwrap(counted)
         ev2 == IF phase = "Moved" THEN Push(ev1, PointerMoved(pos)) ELSE ev1
         ev3 == IF panicked THEN ev1 ELSE EmulatePointer(ev2, was_pressed, count, pos)
         added == Suffix(ev3, Len(ev1))
     IN /\ device_indices' = dev.indices
        /\ next_device_index' = dev.next
        /\ touch_pointer_pressed' = count
        /\ raw_input' = [raw_input EXCEPT !.events = ev3]
        /\ last' = [Call("Touch", [device_id |-> device_id, id |-> id, phase |-> phase,
                                   location |-> location, force |-> force], ev3)
                      EXCEPT !.aborted = panicked]
        /\ emu_balance' = emu_balance
                            + Count(added, LAMBDA e : IsEmuButton(e, TRUE))
                            - Count(added, LAMBDA e : IsEmuButton(e, FALSE))
        /\ first_index' = IF device_id \in DOMAIN first_index THEN first_index
                          ELSE [d \in DOMAIN first_index \cup {device_id} |->
                                  IF d = device_id THEN dev.id ELSE first_index[d]]
        /\ hist' = Record(ev3)
        /\ pointer_pos' = IF added = <<>> THEN pointer_pos
                          ELSE IF added[Len(added)] = PointerGone THEN None
                          ELSE Some(pos)
  /\ UNCHANGED <<scale_factor, modifier, clipboard, target_os, submitted>>

\* handle_event, WindowEvent::Touch.
HandleTouch(device_id, id, phase, location, force) ==
  /\ CanHandle
  /\ CountExplored(touch_pointer_pressed, phase)
  /\ \E overflow_checks \in BOOLEAN :
     LET pos == pos2(ToLogical(location[1], scale_factor),
                     ToLogical(location[2], scale_factor))
         dev == DeviceLookup(device_indices, next_device_index, device_id)
         ev1 == Push(raw_input.events,
                     TouchEvent(dev.id, id, EguiPhase(phase), pos, Some(ForceValue(force))))
         was_pressed == touch_pointer_pressed # U32Zero
         counted == TouchCount(touch_pointer_pressed, phase, overflow_checks)
         \* a panic at `+= 1` leaves the count as it was and skips the rest.
         panicked == ~IsSome(counted)
         count == IF panicked THEN touch_pointer_pressed ELSE Unwrap(counted)
         ev2 == IF phase = "Moved" THEN Push(ev1, PointerMoved(pos)) ELSE ev1
         ev3 == IF panicked THEN ev1 ELSE EmulatePointer(ev2, was_pressed, count, pos)
         added == Suffix(ev3, Len(ev1))
     IN /\ device_indices' = dev.indices
        /\ next_device_index' = dev.next
        /\ touch_pointer_pressed' = count
        /\ raw_input' = [raw_input EXCEPT !.events = ev3]
        /\ last' = [Call("Touch", [device_id |-> device_id, id |-> id, phase |-> phase,
                                   location |-> location, force |-> force], ev3)
                      EXCEPT !.aborted = panicked]
        /\ emu_balance' = emu_balance
                            + Count(added, LAMBDA e : IsEmuButton(e, TRUE))
                            - Count(added, LAMBDA e : IsEmuButton(e, FALSE))
        /\ first_index' = IF device_id \in DOMAIN first_index THEN first_index
                          ELSE [d \in DOMAIN first_index \cup {device_id} |->
                                  IF d = device_id THEN dev.id ELSE first_index[d]]
        /\ hist' = Record(ev3)
  /\ UNCHANGED <<scale_factor, modifier, pointer_pos, clipboard, target_os, submitted>>

\* handle_event, WindowEvent::MouseWheel.
HandleMouseWheel(delta) ==
  /\ CanHandle
  /\ LET d == WheelDelta(delta, target_os)
         ev == IF raw_input.modifiers.ctrl \/ raw_input.modifiers.command
                 THEN Push(raw_input.events, ZoomEvent(d[2]))
                 ELSE Push(raw_input.events, ScrollEvent(d))
     IN /\ raw_input' = [raw_input EXCEPT !.events = ev]
        /\ last' = Call("MouseWheel", [delta |-> delta], ev)
        /\ hist' = Record(ev)
  /\ NoTouchChange
  /\ UNCHANGED <<scale_factor, modifier, pointer_pos, clipboard, target_os, submitted>>

\* handle_event, WindowEvent::Ime.
HandleIme(ime) ==
  /\ CanHandle
  /\ LET ev == ImeEvents(raw_input.events, ime)
     IN /\ raw_input' = [raw_input EXCEPT !.events = ev]
        /\ last' = Call("Ime", [ime |-> ime], ev)
        /\ hist' = Record(ev)
  /\ NoTouchChange
  /\ UNCHANGED <<scale_factor, modifier, pointer_pos, clipboard, target_os, submitted>>

\* handle_event, WindowEvent::CursorMoved.
HandleCursorMoved(position) ==
  /\ CanHandle
  /\ LET pos == pos2(ToLogical(position[1], scale_factor),
                     ToLogical(position[2], scale_factor))
         ev == Push(raw_input.events, PointerMoved(pos))
     IN /\ pointer_pos' = Some(pos)
        /\ raw_input' = [raw_input EXCEPT !.events = ev]
        /\ last' = Call("CursorMoved", [position |-> position], ev)
        /\ hist' = Record(ev)
  /\ NoTouchChange
  /\ UNCHANGED <<scale_factor, modifier, clipboard, target_os, submitted>>

\* variant: the position stays stored when the cursor leaves.
HandleCursorLeft_KeepsPosition ==
  /\ CanHandle
  /\ LET ev == Push(raw_input.events, PointerGone)
     IN /\ raw_input' = [raw_input EXCEPT !.events = ev]
        /\ last' = Call("CursorLeft", None, ev)
        /\ hist' = Record(ev)
  /\ NoTouchChange
  /\ UNCHANGED <<scale_factor, modifier, pointer_pos, clipboard, target_os, submitted>>

\* handle_event, WindowEvent::CursorLeft.
HandleCursorLeft ==
  /\ CanHandle
  /\ LET ev == Push(raw_input.events, PointerGone)
     IN /\ pointer_pos' = None
        /\ raw_input' = [raw_input EXCEPT !.events = ev]
        /\ last' = Call("CursorLeft", None, ev)
        /\ hist' = Record(ev)
  /\ NoTouchChange
  /\ UNCHANGED <<scale_factor, modifier, clipboard, target_os, submitted>>

\* variant: only the platform modifier state is stored.
HandleModifiersChanged_StoredOnly(state) ==
  /\ CanHandle
  /\ modifier' = state
  /\ last' = Call("ModifiersChanged", [state |-> state], raw_input.events)
  /\ hist' = Record(raw_input.events)
  /\ NoTouchChange
  /\ UNCHANGED <<raw_input, scale_factor, pointer_pos, clipboard, target_os, submitted>>

\* handle_event, WindowEvent::ModifiersChanged.
HandleModifiersChanged(state) ==
  /\ CanHandle
  /\ modifier' = state
  /\ raw_input' = [raw_input EXCEPT
                     !.modifiers = winit_to_egui_modifiers(state, target_os)]
  /\ last' = Call("ModifiersChanged", [state |-> state], raw_input.events)
  /\ hist' = Record(raw_input.events)
  /\ NoTouchChange
  /\ UNCHANGED <<scale_factor, pointer_pos, clipboard, target_os, submitted>>

\* handle_event, WindowEvent::KeyboardInput.
HandleKeyboardInput(state, logical_key, text) ==
  /\ CanHandle
  /\ LET ev == KeyboardEvents(raw_input.events, state, logical_key, text,
                              modifier, target_os, clipboard)
     IN /\ raw_input' = [raw_input EXCEPT !.events = ev]
        /\ last' = Call("KeyboardInput", [state |-> state, logical_key |-> logical_key,
                                          text |-> text], ev)
        /\ hist' = Record(ev)
  /\ NoTouchChange
  /\ UNCHANGED <<scale_factor, modifier, pointer_pos, clipboard, target_os, submitted>>

\* the kinds of event captures_event is asked about; DeviceEvent stands for
\* every event that is not a WindowEvent.
EventKinds ==
  {"Ime", "KeyboardInput", "ModifiersChanged", "MouseWheel", "MouseInput",
   "CursorMoved", "Touch", "CursorLeft", "Resized", "ScaleFactorChanged",
   "DeviceEvent"}

\* what the egui context answers: it depends on the GUI, not on Platform.
ContextAnswers ==
  [wants_keyboard_input : BOOLEAN, wants_pointer_input : BOOLEAN,
   is_using_pointer : BOOLEAN]

\* variant: CursorLeft is treated as a pointer event.
captures_event_CursorLeft(kind, context) ==
  IF kind \in {"Ime", "KeyboardInput", "ModifiersChanged"}
    THEN context.wants_keyboard_input
  ELSE IF kind \in {"MouseWheel", "MouseInput", "CursorLeft"}
    THEN context.wants_pointer_input
  ELSE IF kind \in {"CursorMoved", "Touch"} THEN context.is_using_pointer
  ELSE FALSE

\* captures_event: the match on the kind of event.
captures_event(kind, context) ==
  IF kind \in {"Ime", "KeyboardInput", "ModifiersChanged"}
    THEN context.wants_keyboard_input
  ELSE IF kind \in {"MouseWheel", "MouseInput"}
    THEN context.wants_pointer_input
  ELSE IF kind = "CursorMoved" THEN context.is_using_pointer
  ELSE IF kind = "Touch" THEN context.is_using_pointer
  ELSE FALSE

\* a call of captures_event(&self, ..): nothing of the platform is assigned.
CapturesEvent(kind, context) ==
  /\ Running
  /\ last' = CallRet("captures_event", [kind |-> kind, context |-> context],
                     captures_event(kind, context))
  /\ NoTouchChange
  /\ UNCHANGED <<scale_factor, raw_input, modifier, pointer_pos, clipboard,
                 target_os, submitted, hist>>

\* begin_frame.
BeginFrame ==
  /\ Running
  /\ LET t == Take(raw_input)
     IN /\ submitted' = Some(t.taken)
        /\ raw_input' = t.left
        /\ last' = Call("begin_frame", None, t.left.events)
        /\ hist' = IF hist.recording
                     THEN [hist EXCEPT !.submitted = @ \o t.taken.events,
                                       !.batches = IF t.taken.events # <<>>
                                                     THEN @ + 1 ELSE @]
                     ELSE hist
  /\ NoTouchChange
  /\ UNCHANGED <<scale_factor, modifier, pointer_pos, clipboard, target_os>>

\* variant: end_frame drops the events still pending.
EndFrame_DropsPending(window, output) ==
  /\ Running
  /\ LET fx == WindowCalls(window, output.cursor_icon, pointer_pos)
         copy == output.copied_text # <<>> /\ IsSome(clipboard)
     IN /\ clipboard' = IF copy THEN Some(output.copied_text) ELSE clipboard
        /\ last' = CallFx("end_frame", [window |-> window, output |-> output],
                          raw_input.events,
                          fx \o (IF copy THEN <<[call |-> "set_contents",
                                                 arg |-> output.copied_text]>>
                                 ELSE <<>>)
                             \o (IF IsSome(output.open_url)
                                   THEN <<[call |-> "webbrowser_open",
                                           arg |-> Unwrap(output.open_url)]>>
                                   ELSE <<>>))
  /\ raw_input' = [raw_input EXCEPT !.events = <<>>]
  /\ NoTouchChange
  /\ UNCHANGED <<scale_factor, modifier, pointer_pos, target_os, submitted, hist>>

\* end_frame, with the output the GUI context returns.
EndFrame(window, output) ==
  /\ Running
  /\ LET fx == WindowCalls(window, output.cursor_icon, pointer_pos)
         copy == output.copied_text # <<>> /\ IsSome(clipboard)
     IN /\ clipboard' = IF copy THEN Some(output.copied_text) ELSE clipboard
        /\ last' = CallFx("end_frame", [window |-> window, output |-> output],
                          raw_input.events,
                          fx \o (IF copy THEN <<[call |-> "set_contents",
                                                 arg |-> output.copied_text]>>
                                 ELSE <<>>)
                             \o (IF IsSome(output.open_url)
                                   THEN <<[call |-> "webbrowser_open",
                                           arg |-> Unwrap(output.open_url)]>>
                                   ELSE <<>>))
  /\ NoTouchChange
  /\ UNCHANGED <<scale_factor, raw_input, modifier, pointer_pos, target_os,
                 submitted, hist>>

\* ------------------------------------------------------------ specifications
Windows == {None, Some("window")}
PlainOutput == [cursor_icon |-> "Default", copied_text |-> <<>>, open_url |-> None]

Frames ==
  \/ BeginFrame
  \/ \E w \in Windows : EndFrame(w, PlainOutput)

\* touch events and frames.
InitTouch == Init /\ scale_factor = 2 /\ clipboard = None /\ target_os = "linux"

NextTouch ==
  \/ \E d \in DeviceIds, i \in TouchIds, p \in TouchPhases,
        l \in TouchLocations, f \in TouchForces : HandleTouch(d, i, p, l, f)
  \/ Frames

SpecTouch == InitTouch /\ [][NextTouch]_vars

\* the frame protocol with every appended and submitted event recorded.
InitFrames ==
  /\ InitEnv /\ scale_factor = 2 /\ clipboard = None /\ target_os = "linux"
  /\ InitGhost(TRUE)

NextFrames ==
  \/ \E p \in TouchPhases, l \in TouchLocations, f \in TouchForces :
        HandleTouch("devA", 0, p, l, f)
  \/ \E c \in {<<80, 60>>} : HandleCursorMoved(c)
  \/ HandleCursorLeft
  \/ BeginFrame
  \/ EndFrame(Some("window"), PlainOutput)

SpecFrames == InitFrames /\ [][NextFrames]_vars

\* keyboard input under changing modifiers, and frames.
\* key presses as the platform reports them: "c" and "a" with and without
\* text, e-acute (two bytes), the arrow key with its private-use text U+F700,
\* Enter with a carriage return, and the clipboard keys.
KeyPresses ==
  {[logical_key |-> Character(<<99>>), text |-> None],
   [logical_key |-> Character(<<99>>), text |-> Some(<<99>>)],
   [logical_key |-> Character(<<97>>), text |-> Some(<<97>>)],
   [logical_key |-> Character(<<233>>), text |-> Some(<<233>>)],
   [logical_key |-> Named("ArrowUp"), text |-> Some(<<63232>>)],
   [logical_key |-> Named("Enter"), text |-> Some(<<13>>)],
   [logical_key |-> Named("Copy"), text |-> None],
   [logical_key |-> Named("Cut"), text |-> None],
   [logical_key |-> Named("Paste"), text |-> None]}

InitKeyboard == Init /\ scale_factor = 2

NextKeyboard ==
  \/ \E m \in ModifierStates : HandleModifiersChanged(m)
  \/ \E st \in ElementStates, k \in KeyPresses :
        HandleKeyboardInput(st, k.logical_key, k.text)
  \/ Frames

SpecKeyboard == InitKeyboard /\ [][NextKeyboard]_vars

\* resizing under changing scale factors, and frames.
NextResize ==
  \/ \E sz \in PhysicalSizes : HandleResized(sz[1], sz[2])
  \/ \E sf \in ScaleFactors : HandleScaleFactorChanged(sf)
  \/ Frames

SpecResize == Init /\ [][NextResize]_vars

\* the cursor entering and leaving, touches, and frames ending with a cursor
\* request.
CursorOutputs ==
  {[cursor_icon |-> i, copied_text |-> <<>>, open_url |-> None] :
     i \in {"Default", "PointingHand", "None"}}

NextCursor ==
  \/ \E c \in CursorPositions : HandleCursorMoved(c)
  \/ HandleCursorLeft
  \/ \E p \in {"Started", "Ended"} : HandleTouch("devA", 0, p, <<40, 20>>, None)
  \/ BeginFrame
  \/ \E w \in Windows, o \in CursorOutputs : EndFrame(w, o)

SpecCursor == InitTouch /\ [][NextCursor]_vars

\* mouse buttons with the cursor moving, leaving and the modifiers and the
\* scale factor changing, and frames.
NextMouse ==
  \/ \E st \in ElementStates, b \in MouseButtons : HandleMouseInput(st, b)
  \/ HandleCursorMoved(<<80, 60>>)
  \/ HandleCursorLeft
  \/ HandleModifiersChanged({"CONTROL"})
  \/ HandleScaleFactorChanged(1)
  \/ BeginFrame

SpecMouse == InitTouch /\ [][NextMouse]_vars

\* the wheel under changing modifiers, and frames.
WheelDeltas == {LineDelta(0, 3), PixelDelta(0, 200)}

NextWheel ==
  \/ \E d \in WheelDeltas \cup {LineDelta(2, 1)} : HandleMouseWheel(d)
  \/ \E m \in ModifierStates : HandleModifiersChanged(m)
  \/ Frames

\* a platform of either descriptor and target, without clipboard contents.
InitNoClipboard == InitKeyboard /\ clipboard = None

SpecWheel == InitNoClipboard /\ [][NextWheel]_vars

\* captures_event asked between touches, cursor moves and frames.
NextCaptures ==
  \/ \E k \in EventKinds, c \in ContextAnswers : CapturesEvent(k, c)
  \/ \E p \in {"Started", "Ended"} : HandleTouch("devA", 0, p, <<40, 20>>, None)
  \/ HandleCursorMoved(<<40, 20>>)
  \/ BeginFrame

SpecCaptures == InitTouch /\ [][NextCaptures]_vars

\* touches of three devices, the cursor leaving, and frames.
NextDevices ==
  \/ \E d \in DeviceIds \cup {"devC"}, p \in {"Started", "Ended"} :
        HandleTouch(d, 0, p, <<40, 20>>, None)
  \/ HandleCursorLeft
  \/ Frames

SpecDevices == InitTouch /\ [][NextDevices]_vars

\* IME events in any order, a key in between, and frames, with the history
\* of the appended events recorded.
Imes == {[kind |-> "Enabled"], [kind |-> "Preedit", text |-> <<97>>],
         [kind |-> "Commit", text |-> <<97>>], [kind |-> "Disabled"]}

NextIme ==
  \/ \E i \in Imes : HandleIme(i)
  \/ HandleKeyboardInput("Pressed", Named("Enter"), None)
  \/ Frames

SpecIme == InitFrames /\ [][NextIme]_vars

\* the scale factor changing between resizes, cursor moves and touches, and
\* frames.
NextScale ==
  \/ \E sf \in ScaleFactors : HandleScaleFactorChanged(sf)
  \/ \E sz \in {<<0, 0>>, <<800, 600>>} : HandleResized(sz[1], sz[2])
  \/ HandleCursorMoved(<<80, 60>>)
  \/ \E p \in {"Started", "Ended"} : HandleTouch("devA", 0, p, <<40, 20>>, None)
  \/ BeginFrame

SpecScale == InitTouch /\ [][NextScale]_vars

\* the modifiers changing between wheel and key events, and frames.
NextModifiers ==
  \/ \E m \in ModifierStates \cup {{"ALT", "SHIFT"}} : HandleModifiersChanged(m)
  \/ HandleMouseWheel(LineDelta(0, 3))
  \/ HandleKeyboardInput("Pressed", Character(<<97>>), None)
  \/ Frames

SpecModifiers == InitNoClipboard /\ [][NextModifiers]_vars

\* the cursor moving and leaving among events of the other kinds, and frames.
NextPointer ==
  \/ HandleCursorMoved(<<80, 60>>)
  \/ HandleCursorLeft
  \/ HandleMouseInput("Pressed", "Left")
  \/ \E p \in {"Started", "Moved"} : HandleTouch("devA", 0, p, <<40, 20>>, None)
  \/ HandleScaleFactorChanged(1)
  \/ HandleMouseWheel(LineDelta(0, 3))
  \/ HandleKeyboardInput("Pressed", Named("Enter"), None)
  \/ BeginFrame
  \/ EndFrame(Some("window"), PlainOutput)

SpecPointer == InitTouch /\ [][NextPointer]_vars

\* the key table: "A" and "a", "Z", "5", Enter and two keys outside the
\* table (F1 and "+"), each with the one-byte text the platform reports or
\* none, with shift pressed and released, and frames.
TableKeyPresses ==
  {[logical_key |-> Character(<<65>>), text |-> Some(<<65>>)],
   [logical_key |-> Character(<<97>>), text |-> Some(<<97>>)],
   [logical_key |-> Character(<<90>>), text |-> None],
   [logical_key |-> Character(<<53>>), text |-> Some(<<53>>)],
   [logical_key |-> Character(<<43>>), text |-> Some(<<43>>)],
   [logical_key |-> Named("Enter"), text |-> None],
   [logical_key |-> Named("F1"), text |-> None]}

NextKeyTable ==
  \/ \E m \in {{}, {"SHIFT"}} : HandleModifiersChanged(m)
  \/ \E st \in ElementStates, k \in TableKeyPresses :
        HandleKeyboardInput(st, k.logical_key, k.text)
  \/ Frames

SpecKeyTable == InitNoClipboard /\ [][NextKeyTable]_vars

\* keys of the table and one outside it under changing modifiers, and frames.
NextKeyModifiers ==
  \/ \E m \in ModifierStates : HandleModifiersChanged(m)
  \/ \E st \in ElementStates, k \in {Character(<<97>>), Named("Enter"), Named("F1")} :
        HandleKeyboardInput(st, k, None)
  \/ Frames

SpecKeyModifiers == InitNoClipboard /\ [][NextKeyModifiers]_vars

\* touch events and frames on a platform that has handled u32::MAX - 1
\* Started touches of one device and no Ended or Cancelled one, each batch
\* taken by a frame: the count is one below u32::MAX and nothing is pending.
InitOverflow ==
  /\ scale_factor = 2 /\ clipboard = None /\ target_os = "linux"
  /\ raw_input = [screen_rect |-> None, modifiers |-> DefaultModifiers,
                  events |-> <<>>]
  /\ modifier = {}
  /\ pointer_pos = Some(pos2(0, 0))
  /\ touch_pointer_pressed = Sub1(U32Max)
  /\ device_indices = [d \in {"devA"} |-> 1]
  /\ next_device_index = 2
  /\ submitted = Some([screen_rect |-> None, modifiers |-> DefaultModifiers,
                       events |-> <<>>])
  /\ last = [op |-> "begin_frame", arg |-> None, prev_op |-> "untracked",
             pre_count |-> Sub1(U32Max), aborted |-> FALSE,
             pre_next |-> 2, pre_pending |-> 0, prev_pending |-> 0,
             appended |-> <<>>, effects |-> <<>>, result |-> None,
             cursor |-> [kind |-> "new", pos |-> <<0, 0>>],
             mods |-> {}, ime |-> "off", seen |-> <<"devA">>]
  /\ emu_balance = 1
  /\ first_index = [d \in {"devA"} |-> 1]
  /\ hist = [recording |-> FALSE, appended |-> <<>>, submitted |-> <<>>,
             batches |-> 0]

NextOverflow ==
  \/ \E d \in DeviceIds, i \in TouchIds, p \in TouchPhases,
        l \in TouchLocations, f \in TouchForces : HandleTouch(d, i, p, l, f)
  \/ \E st \in ElementStates, b \in MouseButtons : HandleMouseInput(st, b)
  \/ Frames

SpecOverflow == InitOverflow /\ [][NextOverflow]_vars

\* every operation, on a small alphabet of events.
InitAll == Init /\ clipboard = None /\ target_os = "linux"

Next ==
  \/ \E sz \in {<<0, 0>>, <<800, 600>>} : HandleResized(sz[1], sz[2])
  \/ \E sf \in ScaleFactors : HandleScaleFactorChanged(sf)
  \/ \E b \in {"Left", "Other"} : HandleMouseInput("Pressed", b)
  \/ \E p \in {"Started", "Ended"} :
        HandleTouch("devA", 0, p, <<40, 20>>, None)
  \/ \E d \in WheelDeltas : HandleMouseWheel(d)
  \/ HandleCursorMoved(<<40, 20>>)
  \/ HandleCursorLeft
  \/ \E m \in {{}, {"CONTROL"}} : HandleModifiersChanged(m)
  \/ \E i \in Imes : HandleIme(i)
  \/ HandleKeyboardInput("Pressed", Character(<<99>>), None)
  \/ Frames

Spec == InitAll /\ [][Next]_vars

\* ------------------------------------------------------------------ claims
IsTouch(phases) == last.op = "Touch" /\ last.arg.phase \in phases
Presses(s) == Count(s, LAMBDA e : IsEmuButton(e, TRUE))
Releases(s) == Count(s, LAMBDA e : IsEmuButton(e, FALSE))
Buttons(s) == Count(s, LAMBDA e : e.type = "PointerButton")
Gones(s) == Count(s, LAMBDA e : e.type = "PointerGone")

\* C1: a Touch event appends an emulated press exactly when the touch count
\* goes from 0 to a positive value and an emulated release exactly when it goes
\* from a positive value to 0, and no other PointerButton event; the presses
\* and releases appended so far alternate, beginning with a press.
C1_PressOnEdgesOnly ==
  /\ last.op = "Touch" =>
       /\ Presses(last.appended) =
            (IF last.pre_count = U32Zero /\ touch_pointer_pressed # U32Zero THEN 1 ELSE 0)
       /\ Releases(last.appended) =
            (IF last.pre_count # U32Zero /\ touch_pointer_pressed = U32Zero THEN 1 ELSE 0)
       /\ Buttons(last.appended) = Presses(last.appended) + Releases(last.appended)
  /\ emu_balance = (IF touch_pointer_pressed # U32Zero THEN 1 ELSE 0)

\* a second contact starts while one is down, and no button event is appended.
C1_Witness ==
  /\ IsTouch({"Started"})
  /\ last.pre_count = U32(1)
  /\ touch_pointer_pressed = U32(2)
  /\ Buttons(last.appended) = 0
  /\ emu_balance = 1

\* C2: an Ended or Cancelled touch handled while the count is 0 leaves the
\* count at 0 and appends neither a release nor a PointerGone; the emulated
\* releases never outnumber the emulated presses.
C2_ClampAtZero ==
  /\ IsU32(touch_pointer_pressed)
  /\ emu_balance >= 0
  /\ (IsTouch({"Ended", "Cancelled"}) /\ last.pre_count = U32Zero) =>
       /\ touch_pointer_pressed = U32Zero
       /\ Releases(last.appended) = 0
       /\ Gones(last.appended) = 0
       /\ Len(last.appended) = 1

\* an unbalanced end of touch has been handled after a balanced press/release.
C2_Witness ==
  /\ IsTouch({"Ended", "Cancelled"})
  /\ last.pre_count = U32Zero
  /\ touch_pointer_pressed = U32Zero
  /\ Cardinality(DOMAIN first_index) = 2

\* C3: the touch that takes the count from 1 to 0 appends the raw touch event,
\* then the release, then PointerGone, and nothing else; a Touch event never
\* appends a PointerGone that does not directly follow the release.
C3_ReleaseBeforeGone ==
  last.op = "Touch" =>
    /\ (last.pre_count = U32(1) /\ last.arg.phase \in {"Ended", "Cancelled"}) =>
         /\ Len(last.appended) = 3
         /\ last.appended[1].type = "Touch"
         /\ IsEmuButton(last.appended[2], FALSE)
         /\ last.appended[3] = PointerGone
         /\ Suffix(raw_input.events, Len(raw_input.events) - 2)
              = <<last.appended[2], PointerGone>>
    /\ \A i \in 1..Len(last.appended) :
         last.appended[i] = PointerGone =>
           i > 1 /\ IsEmuButton(last.appended[i - 1], FALSE)

\* the only contact still down is cancelled.
C3_Witness ==
  /\ IsTouch({"Cancelled"})
  /\ last.pre_count = U32(1)
  /\ touch_pointer_pressed = U32Zero
  /\ Gones(last.appended) = 1

\* C4: the raw Touch event of a device carries the index that the first Touch
\* event of that device carried, and distinct devices have distinct indices.
C4_DeviceIndexStable ==
  /\ last.op = "Touch" =>
       /\ last.appended[1].type = "Touch"
       /\ last.appended[1].device_id = first_index[last.arg.device_id]
  /\ \A d1, d2 \in DOMAIN first_index :
       d1 # d2 => first_index[d1] # first_index[d2]

\* the device seen second is seen again, both devices being known and a frame
\* having begun.
C4_Witness ==
  /\ last.op = "Touch"
  /\ last.pre_next = 3
  /\ IsSome(submitted)
  /\ Cardinality(DOMAIN first_index) = 2
  /\ first_index[last.arg.device_id] = 2
  /\ last.appended[1].device_id = 2
  /\ next_device_index = 3

\* C5: the batches submitted by the successive begin_frame calls, followed by
\* the events still pending, are the events handle_event appended, in order,
\* each once.
C5_NoEventLostOrDuplicated ==
  hist.recording => hist.submitted \o raw_input.events = hist.appended

\* two non-empty batches were submitted and further events are pending.
C5_Witness ==
  /\ hist.recording
  /\ hist.batches >= 2
  /\ Len(raw_input.events) >= 1
  /\ Len(hist.appended) >= 3

\* C6: begin_frame leaves no event pending, and a begin_frame directly after
\* a begin_frame submits an empty event list.
C6_SecondBatchEmpty ==
  last.op = "begin_frame" =>
    /\ raw_input.events = <<>>
    /\ last.prev_op = "begin_frame" => Unwrap(submitted).events = <<>>

\* a begin_frame that submitted pending events is directly followed by another.
C6_Witness ==
  /\ last.op = "begin_frame"
  /\ last.prev_op = "begin_frame"
  /\ last.prev_pending >= 2
  /\ Unwrap(submitted).events = <<>>

HasType(s, type) == \E i \in 1..Len(s) : s[i].type = type
Contains(s, e) == \E i \in 1..Len(s) : s[i] = e

\* char::is_control: the code points of general category Cc.
IsControl(cp) == cp \in 0..31 \/ cp \in 127..159
\* the private-use areas of Unicode.
IsPrivateUse(cp) ==
  cp \in 57344..63743 \/ cp \in 983040..1048573 \/ cp \in 1048576..1114109
IsPrintable(str) == \A i \in 1..Len(str) : ~IsControl(str[i]) /\ ~IsPrivateUse(str[i])
CtrlOrMetaHeld ==
  "CONTROL" \in modifier \/ winit_to_egui_modifiers(modifier, target_os).command

\* C7: a pressed KeyboardInput for the character key "c" while ctrl is held
\* appends a Copy event and neither a Text event nor a Key event.
C7_CtrlCEmitsCopy ==
  (/\ last.op = "KeyboardInput"
   /\ last.arg.state = "Pressed"
   /\ last.arg.logical_key = Character(<<99>>)
   /\ "CONTROL" \in modifier) =>
    /\ Contains(last.appended, CopyEvent)
    /\ ~HasType(last.appended, "Text")
    /\ ~HasType(last.appended, "Key")

\* C8: a KeyboardInput whose text holds a control character or a private-use
\* code point appends no Text event.
C8_NoTextForUnprintable ==
  (/\ last.op = "KeyboardInput"
   /\ IsSome(last.arg.text)
   /\ ~IsPrintable(Unwrap(last.arg.text))) =>
    ~HasType(last.appended, "Text")

\* C9: a KeyboardInput with printable text, handled while neither ctrl nor the
\* platform-meta modifier is held, appends a Text event with that text; while
\* one of them is held no Text event with the event's text is appended.
C9_TextForPrintable ==
  (last.op = "KeyboardInput" /\ IsSome(last.arg.text)) =>
    /\ (IsPrintable(Unwrap(last.arg.text)) /\ ~CtrlOrMetaHeld) =>
         Contains(last.appended, TextEvent(Unwrap(last.arg.text)))
    /\ CtrlOrMetaHeld =>
         ~Contains(last.appended, TextEvent(Unwrap(last.arg.text)))

ResizedTo(width, height) ==
  last.op = "Resized" /\ last.arg = [width |-> width, height |-> height]

\* C10 as stated: a resize to (800,600) at scale factor 2 leaves the screen
\* rectangle at origin zero with logical size (400,600).
C10_Resize800x600_AsStated ==
  (ResizedTo(800, 600) /\ scale_factor = 2) =>
    raw_input.screen_rect = Some([min |-> <<0, 0>>, max |-> <<400, 600>>])

\* C10, amended: a resize to (800,600) at scale factor 2 leaves the screen
\* rectangle at origin zero with logical size (400,300).
C10_Resize800x600 ==
  (ResizedTo(800, 600) /\ scale_factor = 2) =>
    raw_input.screen_rect = Some([min |-> <<0, 0>>, max |-> <<400, 300>>])

\* the resize is handled at scale factor 2 after the frame took the rectangle.
C10_Witness ==
  /\ ResizedTo(800, 600)
  /\ scale_factor = 2
  /\ IsSome(submitted)
  /\ IsSome(raw_input.screen_rect)

\* C11: a Resized event with width 0 and height 0 changes no field of the
\* Platform; a Resized event with only one of them 0 sets the screen rectangle
\* to the size divided by the scale factor.
C11_ZeroResizeIgnored ==
  [][last'.op = "Resized" =>
       IF last'.arg.width = 0 /\ last'.arg.height = 0
         THEN platform' = platform
         ELSE /\ raw_input'.screen_rect =
                   Some([min |-> <<0, 0>>,
                         max |-> <<last'.arg.width \div scale_factor,
                                   last'.arg.height \div scale_factor>>])
              /\ raw_input'.events = raw_input.events
              /\ raw_input'.modifiers = raw_input.modifiers
              /\ <<scale_factor, modifier, pointer_pos, touch_pointer_pressed,
                    device_indices, next_device_index>>' =
                 <<scale_factor, modifier, pointer_pos, touch_pointer_pressed,
                   device_indices, next_device_index>>]_vars

\* a resize to (0,0) has left the rectangle of an earlier resize in place.
C11_Witness ==
  /\ ResizedTo(0, 0)
  /\ scale_factor = 2
  /\ raw_input.screen_rect = Some([min |-> <<0, 0>>, max |-> <<0, 300>>])

WindowCallsOf(calls, name) ==
  {i \in 1..Len(calls) : calls[i].call = name}

\* C12: end_frame with a window and the hidden cursor requested calls only
\* set_cursor_visible(false); with a mapped icon it calls
\* set_cursor_visible(true), and set_cursor_icon exactly when the most recent
\* cursor event is not a CursorLeft; without a window it makes neither call.
C12_CursorCalls ==
  last.op = "end_frame" =>
    LET visible == WindowCallsOf(last.effects, "set_cursor_visible")
        icon == WindowCallsOf(last.effects, "set_cursor_icon")
    IN IF last.arg.window = None
         THEN visible = {} /\ icon = {}
         ELSE IF last.arg.output.cursor_icon = "None"
           THEN /\ icon = {}
                /\ Cardinality(visible) = 1
                /\ \A i \in visible : last.effects[i].arg = "false"
           ELSE /\ Cardinality(visible) = 1
                /\ \A i \in visible : last.effects[i].arg = "true"
                /\ (icon # {}) = (last.cursor.kind # "left")
                /\ (icon # {}) = IsSome(pointer_pos)
                /\ Cardinality(icon) <= 1

\* a frame ends with a mapped icon after the cursor left and a touch was
\* released: the cursor is made visible and no icon is set.
C12_Witness ==
  /\ last.op = "end_frame"
  /\ IsSome(last.arg.window)
  /\ last.arg.output.cursor_icon = "PointingHand"
  /\ last.cursor.kind = "left"
  /\ emu_balance = 0 /\ next_device_index = 2
  /\ last.effects = <<[call |-> "set_cursor_visible", arg |-> "true"]>>

\* C13: a MouseInput appends one PointerButton event exactly when the button
\* is Left, Right, Middle, Back or Forward and the most recent cursor event is
\* not a CursorLeft; the event carries the position of the last CursorMoved (or
\* the origin), pressed as the element state, and no modifier; otherwise
\* nothing is appended and no field of the Platform changes.
C13_MouseButton ==
  [][last'.op = "MouseInput" =>
       IF last'.arg.button \in {"Left", "Right", "Middle", "Back", "Forward"}
            /\ last.cursor.kind # "left"
         THEN /\ Len(last'.appended) = 1
              /\ last'.appended[1].type = "PointerButton"
              /\ last'.appended[1].pos = last.cursor.pos
              /\ last'.appended[1].pressed = (last'.arg.state = "Pressed")
              /\ last'.appended[1].modifiers =
                   [alt |-> FALSE, ctrl |-> FALSE, shift |-> FALSE,
                    mac_cmd |-> FALSE, command |-> FALSE]
              /\ last'.appended[1].button \in
                   {"Primary", "Secondary", "Middle", "Extra1", "Extra2"}
              /\ raw_input'.events = raw_input.events \o last'.appended
              /\ pointer_pos' = pointer_pos /\ modifier' = modifier
         ELSE /\ last'.appended = <<>>
              /\ platform' = platform]_vars

\* a button is released at the position of an earlier CursorMoved while ctrl
\* is held, the scale factor having changed since the move.
C13_Witness ==
  /\ last.op = "MouseInput"
  /\ last.arg = [state |-> "Released", button |-> "Back"]
  /\ "CONTROL" \in modifier
  /\ raw_input.modifiers.ctrl
  /\ scale_factor = 1
  /\ last.cursor = [kind |-> "moved", pos |-> <<40, 30>>]
  /\ Len(last.appended) = 1
  /\ last.appended[1].pos = <<40, 30>>

\* ctrl or the platform-meta modifier (super on macOS, ctrl elsewhere) is in
\* the state of the most recent ModifiersChanged.
ZoomModifierHeld ==
  \/ "CONTROL" \in last.mods
  \/ target_os = "macos" /\ "SUPER" \in last.mods

\* C14: a MouseWheel appends exactly one event, a Zoom if ctrl or the
\* platform-meta modifier is held by the most recent ModifiersChanged and a
\* Scroll otherwise; without axis inversion a line delta scrolls by 8 units
\* per line, (0,3) by (0,24).
C14_WheelZoomOrScroll ==
  last.op = "MouseWheel" =>
    /\ Len(last.appended) = 1
    /\ last.appended[1].type = (IF ZoomModifierHeld THEN "Zoom" ELSE "Scroll")
    /\ (~ZoomModifierHeld /\ target_os # "macos"
          /\ last.arg.delta.kind = "LineDelta") =>
         last.appended[1].delta = <<8 * last.arg.delta.x, 8 * last.arg.delta.y>>
    /\ (~ZoomModifierHeld /\ target_os # "macos"
          /\ last.arg.delta = [kind |-> "LineDelta", x |-> 0, y |-> 3]) =>
         last.appended = <<[type |-> "Scroll", delta |-> <<0, 24>>]>>

\* the wheel zooms in a frame begun after ctrl was pressed.
C14_Witness ==
  /\ last.op = "MouseWheel"
  /\ last.mods = {"CONTROL"}
  /\ IsSome(submitted)
  /\ Unwrap(submitted).modifiers.ctrl
  /\ Unwrap(submitted).events # <<>>
  /\ last.pre_pending = 0
  /\ last.appended[1].type = "Zoom"

CapturingKinds ==
  {"Ime", "KeyboardInput", "ModifiersChanged", "MouseWheel", "MouseInput",
   "CursorMoved", "Touch"}

\* C15: a call of captures_event leaves the pending batch, the pointer
\* position, the modifier state, the scale factor, the touch count and the
\* device table as they were, and answers false for every kind of event
\* other than Ime, KeyboardInput, ModifiersChanged, MouseWheel, MouseInput,
\* CursorMoved and Touch.
C15_CapturesEventReadOnly ==
  [][last'.op = "captures_event" =>
       /\ raw_input' = raw_input
       /\ pointer_pos' = pointer_pos
       /\ modifier' = modifier
       /\ scale_factor' = scale_factor
       /\ touch_pointer_pressed' = touch_pointer_pressed
       /\ device_indices' = device_indices
       /\ next_device_index' = next_device_index
       /\ (last'.arg.kind \notin CapturingKinds => last'.result = Some(FALSE))]_vars

\* captures_event is asked about CursorLeft while the GUI wants the pointer,
\* with events pending, a pointer position stored and a finger down.
C15_Witness ==
  /\ last.op = "captures_event"
  /\ last.arg.kind = "CursorLeft"
  /\ last.arg.context.wants_pointer_input
  /\ last.result = Some(FALSE)
  /\ raw_input.events # <<>>
  /\ IsSome(pointer_pos)
  /\ touch_pointer_pressed = U32(1)
  /\ device_indices # <<>>

\* C16: no handle_event call aborts and no increment of the touch count
\* leaves the range of a u32: a Started touch is never handled while the
\* count is u32::MAX, and an Other mouse button never reaches the button
\* mapping, nor an Ended touch a count below 0.
C16_NeverAborts ==
  /\ ~last.aborted
  /\ ~(IsTouch({"Started"}) /\ last.pre_count = U32Max)
  /\ IsU32(touch_pointer_pressed)
  /\ (last.op = "MouseInput" /\ last.arg.button = "Other") => last.appended = <<>>

IsUpperLetter(key) ==
  key.kind = "Character" /\ Len(key.str) = 1 /\ key.str[1] \in 65..90
ToLower(key) == Character(<<key.str[1] + 32>>)
\* the keys of the table as the specification lists them: the named
\* navigation keys, the digits and the letters of either case.
InKeyTable(key) ==
  IF key.kind = "Named" THEN key.name \in NamedKeyTable
  ELSE /\ Len(key.str) = 1
       /\ key.str[1] \in (48..57) \cup (65..90) \cup (97..122)

\* C17: a KeyboardInput with an upper-case letter as logical key that yields
\* no Text event appends the Key event that the same input with the
\* lower-case letter appends; a key outside the table appends no Key event.
C17_KeyTableCaseInsensitive ==
  (last.op = "KeyboardInput" /\ ~HasType(last.appended, "Text")) =>
    /\ IsUpperLetter(last.arg.logical_key) =>
         last.appended = KeyboardEvents(<<>>, last.arg.state,
                                        ToLower(last.arg.logical_key),
                                        last.arg.text, modifier, target_os,
                                        clipboard)
    /\ ~InKeyTable(last.arg.logical_key) => ~HasType(last.appended, "Key")

EmulatedEvents(s) ==
  Count(s, LAMBDA e : e.type \in {"PointerButton", "PointerMoved", "PointerGone"})

\* C18, as stated: after a Touch event that appends an emulated pointer
\* event the stored pointer position is the contact's logical position, or
\* absent when PointerGone was appended.
C18_TouchSetsPointer_AsStated ==
  (last.op = "Touch" /\ EmulatedEvents(last.appended) > 0) =>
    pointer_pos = (IF Gones(last.appended) > 0 THEN None
                   ELSE Some(last.appended[1].pos))

\* C18: a Touch event leaves the stored pointer position as it was, whether
\* or not it appends emulated pointer events; the position changes only in
\* a CursorMoved or a CursorLeft.
C18_TouchKeepsPointer ==
  [][/\ last'.op = "Touch" => pointer_pos' = pointer_pos
     /\ pointer_pos' # pointer_pos => last'.op \in {"CursorMoved", "CursorLeft"}]_vars

\* the last contact is lifted, release and PointerGone are appended, and the
\* position stored by the cursor move before is still there.
C18_Witness ==
  /\ IsTouch({"Ended"})
  /\ Gones(last.appended) = 1
  /\ last.cursor.kind = "moved"
  /\ pointer_pos = Some(pos2(40, 30))
  /\ last.appended[1].pos = pos2(20, 10)

\* C19: the device table holds exactly the device ids seen so far, the k-th
\* one seen under index k, so its indices are 1..n and next_device_index is
\* n + 1; and no call removes or changes an entry of the table.
C19_DenseIndices ==
  /\ [](LET n == Len(last.seen)
        IN /\ DOMAIN device_indices = {last.seen[k] : k \in 1..n}
           /\ {device_indices[d] : d \in DOMAIN device_indices} = 1..n
           /\ next_device_index = n + 1
           /\ \A k \in 1..n : device_indices[last.seen[k]] = k)
  /\ [][\A d \in DOMAIN device_indices :
          /\ d \in DOMAIN device_indices'
          /\ device_indices'[d] = device_indices[d]]_vars

\* three devices have been seen and the second one touches again, after a
\* frame.
C19_Witness ==
  /\ last.op = "Touch"
  /\ last.seen = <<"devB", "devA", "devC">>
  /\ last.arg.device_id = "devA"
  /\ last.pre_next = 4
  /\ device_indices["devA"] = 2
  /\ next_device_index = 4
  /\ IsSome(submitted)

\* the logical modifier set of a platform modifier state: alt, ctrl and
\* shift as they are, mac_cmd the super key on macOS only, and command the
\* super key on macOS and the control key elsewhere.
LogicalModifiers(state) ==
  [alt |-> "ALT" \in state, ctrl |-> "CONTROL" \in state,
   shift |-> "SHIFT" \in state,
   mac_cmd |-> target_os = "macos" /\ "SUPER" \in state,
   command |-> IF target_os = "macos" THEN "SUPER" \in state
               ELSE "CONTROL" \in state]

\* C20: every Key event appended by a KeyboardInput carries the logical
\* modifiers of the most recent ModifiersChanged handled before it (the
\* empty set if there was none), whatever frames came in between, and
\* repeat = false.
C20_KeyModifiers ==
  last.op = "KeyboardInput" =>
    \A i \in 1..Len(last.appended) :
      last.appended[i].type = "Key" =>
        /\ last.appended[i].modifiers = LogicalModifiers(last.mods)
        /\ last.appended[i].repeat = FALSE

\* a key of the table is pressed in a frame begun after ctrl was pressed.
C20_Witness ==
  /\ last.op = "KeyboardInput"
  /\ HasType(last.appended, "Key")
  /\ last.mods = {"CONTROL"}
  /\ last.pre_pending = 0
  /\ IsSome(submitted)
  /\ Unwrap(submitted).modifiers.ctrl
  /\ Unwrap(submitted).events # <<>>

IsComposition(e) == e.type \in {"CompositionStart", "CompositionEnd"}

\* C21: Enabled appends CompositionStart, Preedit CompositionUpdate with the
\* candidate text, Commit CompositionEnd with the committed text and then
\* CompositionStart, Disabled CompositionEnd with the empty text, and
\* nothing else; while the Ime events follow Enabled, (Preedit | Commit)*,
\* Disabled, the CompositionStart and CompositionEnd events appended so far
\* alternate, a start first, and the last one is an end once Disabled is
\* handled.
C21_ImeTranslation ==
  /\ last.op = "Ime" =>
       LET ime == last.arg.ime
       IN /\ ime.kind = "Enabled" =>
               last.appended = <<[type |-> "CompositionStart"]>>
          /\ ime.kind = "Preedit" =>
               last.appended = <<[type |-> "CompositionUpdate", text |-> ime.text]>>
          /\ ime.kind = "Commit" =>
               last.appended = <<[type |-> "CompositionEnd", text |-> ime.text],
                                 [type |-> "CompositionStart"]>>
          /\ ime.kind = "Disabled" =>
               last.appended = <<[type |-> "CompositionEnd", text |-> <<>>]>>
  /\ last.ime # "broken" =>
       LET marks == SelectSeq(hist.appended, IsComposition)
       IN /\ \A i \in 1..Len(marks) :
               marks[i].type = (IF i % 2 = 1 THEN "CompositionStart"
                                ELSE "CompositionEnd")
          /\ Len(marks) % 2 = (IF last.ime = "on" THEN 1 ELSE 0)

\* a session with a Commit is closed by Disabled after a frame took the
\* first events: start, end, start, end.
C21_Witness ==
  /\ last.op = "Ime"
  /\ last.arg.ime.kind = "Disabled"
  /\ last.ime = "off"
  /\ hist.batches >= 1
  /\ Len(SelectSeq(hist.appended, IsComposition)) = 4

\* C22: a ScaleFactorChanged stores the new factor and changes nothing else,
\* the screen rectangle and the pending events included; no other call
\* changes the factor; and a later Resized, CursorMoved or Touch divides its
\* physical size or position by the factor stored at that moment.
C22_ScaleFactorOnly ==
  [][/\ last'.op = "ScaleFactorChanged" =>
          /\ scale_factor' = last'.arg.scale_factor
          /\ raw_input' = raw_input
          /\ <<modifier', pointer_pos', touch_pointer_pressed', device_indices',
               next_device_index'>>
               = <<modifier, pointer_pos, touch_pointer_pressed, device_indices,
                   next_device_index>>
     /\ scale_factor' # scale_factor => last'.op = "ScaleFactorChanged"
     /\ (last'.op = "Resized" /\ last'.arg # [width |-> 0, height |-> 0]) =>
          raw_input'.screen_rect =
            Some([min |-> <<0, 0>>,
                  max |-> <<last'.arg.width \div scale_factor,
                            last'.arg.height \div scale_factor>>])
     /\ last'.op = "CursorMoved" =>
          last'.appended[1].pos = <<last'.arg.position[1] \div scale_factor,
                                    last'.arg.position[2] \div scale_factor>>
     /\ last'.op = "Touch" =>
          last'.appended[1].pos = <<last'.arg.location[1] \div scale_factor,
                                    last'.arg.location[2] \div scale_factor>>]_vars

\* the factor goes from 2 to 1 with a cursor move pending: the rectangle is
\* still the 400 x 300 of the construction and the pending position the one
\* divided by 2.
C22_Witness ==
  /\ last.op = "ScaleFactorChanged"
  /\ scale_factor = 1
  /\ raw_input.screen_rect = Some([min |-> <<0, 0>>, max |-> <<400, 300>>])
  /\ raw_input.events = <<[type |-> "PointerMoved", pos |-> <<40, 30>>]>>

\* C23: the modifiers of the pending batch are always the logical modifiers
\* of the stored platform modifier state, a batch is submitted with them,
\* and begin_frame changes neither of the two.
C23_ModifiersAgree ==
  /\ [](/\ raw_input.modifiers = LogicalModifiers(modifier)
        /\ last.op = "begin_frame" =>
             Unwrap(submitted).modifiers = LogicalModifiers(modifier))
  /\ [][last'.op = "begin_frame" =>
          /\ modifier' = modifier
          /\ raw_input'.modifiers = raw_input.modifiers]_vars

\* on macOS a frame begins while the super key is held: the batch submitted
\* and the pending one both hold command and mac_cmd.
C23_Witness ==
  /\ last.op = "begin_frame"
  /\ target_os = "macos"
  /\ modifier = {"SUPER"}
  /\ raw_input.modifiers.command /\ raw_input.modifiers.mac_cmd
  /\ Unwrap(submitted).modifiers.command
  /\ Unwrap(submitted).events # <<>>

\* C24: end_frame leaves the pending batch, the pointer position, the
\* modifier state, the scale factor, the touch count and the device table
\* as they were, and the begin_frame after an end_frame submits exactly the
\* events that were pending at the end_frame.
C24_EndFrameKeepsPending ==
  [][/\ last'.op = "end_frame" =>
          /\ raw_input' = raw_input
          /\ <<pointer_pos', modifier', scale_factor', touch_pointer_pressed',
               device_indices', next_device_index'>>
               = <<pointer_pos, modifier, scale_factor, touch_pointer_pressed,
                   device_indices, next_device_index>>
     /\ (last.op = "end_frame" /\ last'.op = "begin_frame") =>
          /\ Unwrap(submitted').events = raw_input.events
          /\ raw_input'.events = <<>>]_vars

\* a second batch is submitted right after an end_frame: its events were
\* appended after the first begin_frame and were pending over the end_frame.
C24_Witness ==
  /\ last.op = "begin_frame"
  /\ last.prev_op = "end_frame"
  /\ hist.batches = 2
  /\ Unwrap(submitted).events # <<>>
  /\ last.pre_pending = Len(Unwrap(submitted).events)

\* C25: the stored pointer position is (0,0) from the construction until the
\* first cursor event; after that it is the physical position of the most
\* recent CursorMoved divided by the scale factor of that moment, or absent
\* if the most recent cursor event is a CursorLeft.  CursorMoved appends
\* PointerMoved at that position and CursorLeft appends PointerGone; no
\* other call changes the stored position; and a MouseInput of a mapped
\* button handled before any cursor event appends a PointerButton at (0,0).
C25_PointerPosition ==
  /\ [](/\ pointer_pos = (CASE last.cursor.kind = "new" -> <<(<<0, 0>>)>>
                            [] last.cursor.kind = "moved" -> <<last.cursor.pos>>
                            [] last.cursor.kind = "left" -> <<>>)
        /\ last.op = "CursorMoved" =>
             last.appended = <<[type |-> "PointerMoved", pos |-> last.cursor.pos]>>
        /\ last.op = "CursorLeft" =>
             last.appended = <<[type |-> "PointerGone"]>>
        /\ (last.op = "MouseInput" /\ last.arg.button # "Other"
              /\ last.cursor.kind = "new") =>
             /\ Len(last.appended) = 1
             /\ last.appended[1].type = "PointerButton"
             /\ last.appended[1].pos = <<0, 0>>)
  /\ [][pointer_pos' # pointer_pos =>
          last'.op \in {"CursorMoved", "CursorLeft"}]_vars

\* a button is pressed before any cursor event, after a touch and a frame:
\* the PointerButton is at the origin.
C25_Witness ==
  /\ last.op = "MouseInput"
  /\ last.arg.button = "Left"
  /\ last.cursor.kind = "new"
  /\ next_device_index = 2
  /\ IsSome(submitted)
  /\ last.appended[1].pos = <<0, 0>>
====
